---- MODULE Spec2Model ----
(***************************************************************************)
(* Model of the brunnels-js analysis pipeline (js/brunnel.js: Brunnel and  *)
(* BrunnelAnalysis; js/geometry.js: GeometryUtils and BrunnelsApp).        *)
(*                                                                         *)
(* The Turf.js calls are the geometry library the code consumes.  Their    *)
(* results are data of each candidate way:                                 *)
(*   within     - lineIntersect / booleanPointInPolygon say the way lies   *)
(*                inside the route buffer;                                 *)
(*   projFails  - a Turf call inside calculateRouteSpan throws;            *)
(*   point.loc  - nearestPointOnLine(route, point).properties.location     *)
(*                (kilometres along the route);                            *)
(*   point.dist - distance from the point to its nearest route point;      *)
(*   bearings   - rhumbBearing of each segment of the way.                 *)
(* The route is a polyline with one vertex per kilometre.                   *)
(*                                                                         *)
(* The invocations of analyzeRoute (one per file selection) interleave at  *)
(* their awaits.  The Overpass caching proxy (OverpassCachingProxy) is     *)
(* modelled with its cache directory, its clock and its requests.  The     *)
(* results screen (MapVisualization, the sidebar events of BrunnelsApp) is *)
(* modelled with the Leaflet layer of each crossing.                       *)
(***************************************************************************)
EXTENDS Integers, Sequences, FiniteSets, TLC

\* ---------------------------------------------------------------- bounds
MaxBrunnels == 3
MaxNode == 2
MaxLoc == 2
MaxAlignBrunnels == 2
MaxCallBrunnels == 1
MaxRepeatBrunnels == 2
MaxRequests == 3
MaxClock == 3
MaxMapBrunnels == 2
MaxDegree == 2
MaxRoutePoints == 4

\* ------------------------------------------------------ program constants
DefaultTolerance == 20
KmToMeters == 1000
Infinity == 1000000
HalfTurn == 180
FullTurn == 360
QuarterTurn == 90
DefaultMaxAge == 24
MAX_DEGREES_SQUARED == 4

VARIABLES
    overpassData,   \* response of the candidate query: [bridges, tunnels]
    formTolerance,  \* parseFloat of the bearingTolerance form field
    options,        \* result of getAnalysisOptions
    arena,          \* every Brunnel object created, by id
    brunnels,       \* this.brunnels: sequence of ids
    pc,             \* position inside analyzeRoute / applyFiltering
    calls,          \* the invocations of analyzeRoute, one per file selection
    route,          \* this.route
    current,        \* the invocation whose continuation last ran, 0 if none
    brunnelList,    \* the entries updateBrunnelList rendered, in order
    brunnelLayerMap,\* MapVisualization.brunnelLayerMap: the layer of each id
    probe,          \* a direct call of a utility function: arguments, result
    maxAge,         \* proxy: this.maxAge, in hours
    cache,          \* proxy: the files of cacheDir, by cache key
    now,            \* proxy: Date.now(), in hours
    requests        \* proxy: the POST requests received, in order of arrival

vars == <<overpassData, formTolerance, options, arena, brunnels, pc,
          calls, route, current, brunnelList, brunnelLayerMap, probe,
          maxAge, cache, now, requests>>

\* The state of the caching proxy.
proxyVars == <<maxAge, cache, now, requests>>

\* What the stages of applyFiltering leave alone.
callVars ==
    <<calls, route, current, brunnelList, brunnelLayerMap, probe, proxyVars>>

\* The state of the application object.
appVars == <<overpassData, formTolerance, options, arena, brunnels, pc,
             calls, route, current, brunnelList, brunnelLayerMap>>

\* ------------------------------------------------------------- the route
Abs(x) == IF x < 0 THEN -x ELSE x

\* A GPX file: the track points as kilometre marks along the track, and the
\* rhumbBearing of its first segment.
GPXFile(coordinates, heading) ==
    [coordinates |-> coordinates, heading |-> heading]

\* A track with a vertex every kilometre that starts north, the same track
\* starting east, two coincident points, one point, and no point.
NorthFile == GPXFile([i \in 1..(MaxLoc + 1) |-> i - 1], 0)

EastFile == GPXFile([i \in 1..(MaxLoc + 1) |-> i - 1], QuarterTurn)

CoincidentFile == GPXFile(<<0, 0>>, 0)

SinglePointFile == GPXFile(<<0>>, 0)

EmptyFile == GPXFile(<<>>, 0)

\* GeometryUtils.calculateCumulativeDistances (metres).
RECURSIVE calculateCumulativeDistances(_)
calculateCumulativeDistances(routeCoords) ==
    IF Len(routeCoords) <= 1 THEN <<0>>
    ELSE LET n == Len(routeCoords)
             distances == calculateCumulativeDistances(SubSeq(routeCoords, 1, n - 1))
         IN Append(distances,
                   distances[n - 1]
                     + Abs(routeCoords[n] - routeCoords[n - 1]) * KmToMeters)

\* this.route before the first file is parsed.
NullRoute ==
    [isNull |-> TRUE, coordinates |-> <<>>, cumulativeDistances |-> <<>>,
     heading |-> 0, totalDistance |-> 0]

\* parseGPXFile throws only when the tracks hold no point at all.
parseGPXFileThrows(file) == Len(file.coordinates) = 0

\* BrunnelsApp.parseGPXFile: the route object.
parseGPXFile(file) ==
    LET cumulativeDistances == calculateCumulativeDistances(file.coordinates)
    IN [isNull |-> FALSE, coordinates |-> file.coordinates,
        cumulativeDistances |-> cumulativeDistances,
        heading |-> file.heading,
        totalDistance |-> cumulativeDistances[Len(cumulativeDistances)]]

\* createRouteBuffer: turf.lineString throws on fewer than 2 positions.
createRouteBufferThrows(r) == Len(r.coordinates) < 2

\* this.route.cumulativeDistances
RouteCumulative == route.cumulativeDistances

\* rhumbBearing of segment j (vertex j to vertex j+1) of this.route: the
\* track turns a quarter at every vertex.
RouteBearing(j) ==
    IF j % 2 = 1 THEN route.heading ELSE QuarterTurn - route.heading

\* ------------------------------------------------------------ raw inputs
NullSpan == [isNull |-> TRUE, startDistance |-> 0, endDistance |-> 0]

Nodes == 1..MaxNode

\* Node lists of a way: none, one node, or two nodes in ascending order.
NodeLists ==
    {<<>>} \cup {<<a>> : a \in Nodes}
           \cup {<<p[1], p[2]>> : p \in {q \in Nodes \X Nodes : q[1] < q[2]}}

\* The ways that link two nodes.
LinkLists == {x \in NodeLists : Len(x) = 2}

\* rhumbBearing of the segments of a way.
Bearings == {0, 45}

\* Distance of the points of a way from the route: on it, or beside it.
Dists == {0, 1}

\* A two-point way whose ends project to s and e, d away from the route.
Line(s, e, d) == <<[loc |-> s, dist |-> d], [loc |-> e, dist |-> d]>>

Way(nodes, geometry, bearing, within, projFails) ==
    [nodes |-> nodes, geometry |-> geometry,
     bearings |-> [i \in 1..(Len(geometry) - 1) |-> bearing],
     within |-> within, projFails |-> projFails]

\* The pairs of projected locations of the two ends of a way.
Spans == {sp \in (0..MaxLoc) \X (0..MaxLoc) : sp[1] <= sp[2]}

\* A way outside the corridor and a way whose projection fails.
OutsideWay(nodes) == Way(nodes, Line(0, MaxLoc, 0), 0, FALSE, FALSE)

UnprojectableWay(nodes) == Way(nodes, Line(0, MaxLoc, 0), 0, TRUE, TRUE)

\* Ways of the overlap slice: every span of positive length at every
\* distance from the route, a way outside the corridor and a way whose
\* projection fails.
OverlapPool ==
    {Way(<<>>, Line(sp[1], sp[2], d), 0, TRUE, FALSE) :
        sp \in {x \in Spans : x[1] < x[2]}, d \in Dists}
    \cup {OutsideWay(<<>>), UnprojectableWay(<<>>)}

\* Ways of the alignment slice: every span, also of length 0, with every
\* bearing, and the degenerate polylines of 0 and 1 points.
AlignPool ==
    {Way(<<>>, Line(sp[1], sp[2], 0), b, TRUE, FALSE) :
        sp \in Spans, b \in Bearings}
    \cup {Way(<<>>, <<>>, 0, TRUE, FALSE),
          Way(<<>>, <<[loc |-> 0, dist |-> 0]>>, 0, TRUE, FALSE)}

\* Ways of the compound slice: every node list on a contained way, and
\* ways outside the corridor that link two nodes.
CompoundPool ==
    {Way(nodes, Line(0, MaxLoc, 0), 0, TRUE, FALSE) : nodes \in NodeLists}
    \cup {OutsideWay(nodes) : nodes \in LinkLists}

\* Ways of the representative slice: every non-empty node list on a way
\* that starts at the route start or one kilometre before its end, and
\* linking ways whose projection fails.
RepPool ==
    {Way(nodes, Line(s, MaxLoc, 0), 0, TRUE, FALSE) :
        nodes \in NodeLists \ {<<>>}, s \in {0, MaxLoc - 1}}
    \cup {UnprojectableWay(nodes) : nodes \in LinkLists}

\* Ways of the repeat slice: ways along the whole route with and without
\* a shared node, at every distance and bearing, a way outside the corridor
\* and a way whose projection fails.
RepeatPool ==
    {Way(nodes, Line(0, MaxLoc, d), b, TRUE, FALSE) :
        nodes \in {<<>>, <<1>>}, d \in Dists, b \in Bearings}
    \cup {OutsideWay(<<1>>), UnprojectableWay(<<1>>)}

\* Values of the bearingTolerance form field: 0, the default, a negative one.
TolInputs == {0, DefaultTolerance, -5}

\* Ways of the session slice: a way along the first kilometre with every
\* bearing, and a way outside the corridor.
SessionPool ==
    {Way(<<>>, Line(0, 1, 0), b, TRUE, FALSE) : b \in Bearings}
    \cup {OutsideWay(<<>>)}

\* ------------------------------------------------------ Brunnel (object)
Brunnel(id, type, way) ==
    [id |-> id, type |-> type, nodes |-> way.nodes, geometry |-> way.geometry,
     bearings |-> way.bearings, within |-> way.within,
     projFails |-> way.projFails,
     routeSpan |-> NullSpan, exclusionReason |-> "null", selected |-> TRUE,
     overlapGroup |-> <<>>, compoundGroup |-> <<>>]

\* fromOverpassData: bridges first, then tunnels; ids are the ways' ids.
fromOverpassData(data) ==
    [i \in 1..(Len(data.bridges) + Len(data.tunnels)) |->
        IF i <= Len(data.bridges)
        THEN Brunnel(i, "bridge", data.bridges[i])
        ELSE Brunnel(i, "tunnel", data.tunnels[i - Len(data.bridges)])]

isIncluded(b) == b.exclusionReason = "null"

\* getAnalysisOptions: parseFloat(value) || 20 (0 is falsy).
getAnalysisOptions(tol) ==
    [bearingTolerance |-> IF tol = 0 THEN DefaultTolerance ELSE tol]

\* ----------------------------------------------------------- containment
\* brunnelWithin: turf.lineString throws on fewer than 2 positions.
brunnelWithinThrows(b) == Len(b.geometry) < 2

isWithin(b) == b.within

\* Index in list of the first brunnel on which isWithin throws, 0 if none.
FirstThrow(bs, list) ==
    IF \E k \in 1..Len(list) : brunnelWithinThrows(bs[list[k]])
    THEN CHOOSE k \in 1..Len(list) :
            /\ brunnelWithinThrows(bs[list[k]])
            /\ \A j \in 1..(k - 1) : ~brunnelWithinThrows(bs[list[j]])
    ELSE 0

\* filterContained: marks the brunnels outside the buffer as 'outlier' and
\* returns the contained ones; an exception leaves the marks made so far.
filterContained(bs, list) ==
    LET t == FirstThrow(bs, list)
        upto == IF t = 0 THEN Len(list) ELSE t - 1
        seen == {list[k] : k \in 1..upto}
        marked == [id \in DOMAIN bs |->
                     IF id \in seen /\ ~isWithin(bs[id])
                     THEN [bs[id] EXCEPT !.exclusionReason = "outlier"]
                     ELSE bs[id]]
    IN [arena |-> marked,
        contained |-> SelectSeq(list, LAMBDA id : isWithin(bs[id])),
        threw |-> t # 0]

\* ------------------------------------------------------- span projection
RECURSIVE ProjectPoints(_, _, _)
\* The loop of calculateRouteSpan: running minimum and maximum of the
\* projected locations of the points.
ProjectPoints(points, minDistance, maxDistance) ==
    IF points = <<>>
    THEN [isNull |-> FALSE, startDistance |-> minDistance,
          endDistance |-> maxDistance]
    ELSE LET loc == Head(points).loc
         IN ProjectPoints(Tail(points),
                          IF loc < minDistance THEN loc ELSE minDistance,
                          IF loc > maxDistance THEN loc ELSE maxDistance)

\* GeometryUtils.calculateRouteSpan: null when a Turf call throws.
calculateRouteSpan(b) ==
    IF b.projFails THEN NullSpan
    ELSE ProjectPoints(b.geometry, Infinity, -Infinity)

\* BrunnelAnalysis.calculateRouteSpans over the list.
calculateRouteSpans(bs, list) ==
    LET ids == {list[k] : k \in 1..Len(list)}
    IN [id \in DOMAIN bs |->
          IF id \in ids
          THEN [bs[id] EXCEPT !.routeSpan = calculateRouteSpan(bs[id])]
          ELSE bs[id]]

\* ---------------------------------------------------- compound detection
RECURSIVE Occurrences(_, _)
\* One copy of index per occurrence of nodeId in nodes (the pushes of one
\* brunnel into edges.get(nodeId)).
Occurrences(nodes, nodeId) ==
    IF nodes = <<>> THEN 0
    ELSE (IF Head(nodes) = nodeId THEN 1 ELSE 0) + Occurrences(Tail(nodes), nodeId)

RECURSIVE EdgeList(_, _, _, _)
\* edges.get(nodeId) after _buildNodeEdgesMap: indices in ascending order.
EdgeList(bs, typed, nodeId, index) ==
    IF index > Len(typed) THEN <<>>
    ELSE [k \in 1..Occurrences(bs[typed[index]].nodes, nodeId) |-> index]
         \o EdgeList(bs, typed, nodeId, index + 1)

_buildNodeEdgesMap(bs, typed) ==
    [nodeId \in Nodes |-> EdgeList(bs, typed, nodeId, 1)]

\* Mutant: only the first node of the brunnel is followed.
Neighbors_firstNodeOnly(nodes, edges, visited) ==
    IF nodes = <<>> THEN <<>>
    ELSE SelectSeq(edges[Head(nodes)], LAMBDA n : n \notin visited)

\* The indices pushed on the queue while visiting one brunnel: for each of
\* its nodes in order, every not yet visited index of that node.
RECURSIVE Neighbors(_, _, _)
Neighbors(nodes, edges, visited) ==
    IF nodes = <<>> THEN <<>>
    ELSE SelectSeq(edges[Head(nodes)], LAMBDA n : n \notin visited)
         \o Neighbors(Tail(nodes), edges, visited)

RECURSIVE BFSLoop(_, _, _, _, _)
BFSLoop(bs, typed, edges, queue, st) ==
    IF queue = <<>> THEN st
    ELSE LET currentIndex == Head(queue)
         IN IF currentIndex \in st.visited
            THEN BFSLoop(bs, typed, edges, Tail(queue), st)
            ELSE LET visited == st.visited \cup {currentIndex}
                 IN BFSLoop(bs, typed, edges,
                            Tail(queue) \o Neighbors(bs[typed[currentIndex]].nodes,
                                                     edges, visited),
                            [visited |-> visited,
                             component |-> Append(st.component, currentIndex)])

\* _findConnectedComponentBFS: the component of startIndex, in visit order.
_findConnectedComponentBFS(bs, typed, edges, startIndex, visited) ==
    BFSLoop(bs, typed, edges, <<startIndex>>,
            [visited |-> visited, component |-> <<>>])

RECURSIVE ComponentsFrom(_, _, _, _, _)
ComponentsFrom(bs, typed, edges, i, visited) ==
    IF i > Len(typed) THEN <<>>
    ELSE IF i \in visited
         THEN ComponentsFrom(bs, typed, edges, i + 1, visited)
         ELSE LET r == _findConnectedComponentBFS(bs, typed, edges, i, visited)
              IN <<r.component>>
                 \o ComponentsFrom(bs, typed, edges, i + 1, r.visited)

_findConnectedComponents(bs, typed, edges) ==
    ComponentsFrom(bs, typed, edges, 1, {})

\* Mutant: a component of one brunnel becomes a group too.
IsCompound_any(componentIndices) == Len(componentIndices) > 0

\* if (componentIndices.length > 1)
IsCompound(componentIndices) == Len(componentIndices) > 1

\* _createCompoundGroups: each component of more than one index becomes the
\* compoundGroup (array of brunnels, here ids) of each of its members.
_createCompoundGroups(bs, typed, components) ==
    [id \in DOMAIN bs |->
        IF \E c \in 1..Len(components) :
              /\ IsCompound(components[c])
              /\ \E k \in 1..Len(components[c]) : typed[components[c][k]] = id
        THEN LET c == CHOOSE c \in 1..Len(components) :
                        /\ IsCompound(components[c])
                        /\ \E k \in 1..Len(components[c]) :
                              typed[components[c][k]] = id
             IN [bs[id] EXCEPT !.compoundGroup =
                    [k \in 1..Len(components[c]) |-> typed[components[c][k]]]]
        ELSE bs[id]]

_processCompoundBrunnelsForType(bs, typed) ==
    IF Len(typed) <= 1 THEN bs
    ELSE _createCompoundGroups(bs, typed,
            _findConnectedComponents(bs, typed, _buildNodeEdgesMap(bs, typed)))

\* Mutant: the list is not separated by type.
TypedList_ignoresType(bs, list, type) == list

\* The lists findCompoundBrunnels hands to _processCompoundBrunnelsForType.
TypedList(bs, list, type) == SelectSeq(list, LAMBDA id : bs[id].type = type)

findCompoundBrunnels(bs, list) ==
    _processCompoundBrunnelsForType(
        _processCompoundBrunnelsForType(bs, TypedList(bs, list, "bridge")),
        TypedList(bs, list, "tunnel"))

\* --------------------------------------------------------- representative
\* (a.routeSpan?.startDistance || 0): a null span counts as 0.
StartKey(b) == IF b.routeSpan.isNull THEN 0 ELSE b.routeSpan.startDistance

RECURSIVE InsertByKey_tiesFirst(_, _, _)
\* Mutant: an unstable sort that puts x before the elements of equal key.
InsertByKey_tiesFirst(sorted, x, key) ==
    IF sorted = <<>> THEN <<x>>
    ELSE IF key[Head(sorted)] < key[x]
         THEN <<Head(sorted)>> \o InsertByKey_tiesFirst(Tail(sorted), x, key)
         ELSE <<x>> \o sorted

RECURSIVE InsertByKey(_, _, _)
\* x placed behind every element whose key is not larger: the order a
\* stable sort gives.
InsertByKey(sorted, x, key) ==
    IF sorted = <<>> THEN <<x>>
    ELSE IF key[Head(sorted)] <= key[x]
         THEN <<Head(sorted)>> \o InsertByKey(Tail(sorted), x, key)
         ELSE <<x>> \o sorted

RECURSIVE SortByKey(_, _)
\* Array.prototype.sort((a, b) => key(a) - key(b)), which is stable.
SortByKey(seq, key) ==
    IF seq = <<>> THEN <<>>
    ELSE InsertByKey(SortByKey(SubSeq(seq, 1, Len(seq) - 1), key),
                     seq[Len(seq)], key)

\* Mutant: every brunnel is its own representative.
isRepresentative_always(bs, b) == TRUE

\* Brunnel.isRepresentative
isRepresentative(bs, b) ==
    IF Len(b.compoundGroup) <= 1 THEN TRUE
    ELSE Head(SortByKey(b.compoundGroup,
                        [id \in DOMAIN bs |-> StartKey(bs[id])])) = b.id

\* -------------------------------------------------------------- alignment
\* GeometryUtils.getBearingDifference
getBearingDifference(bearing1, bearing2) ==
    LET d0 == Abs(bearing1 - bearing2)
        d1 == IF d0 > HalfTurn THEN FullTurn - d0 ELSE d0
    IN IF d1 > QuarterTurn THEN Abs(HalfTurn - d1) ELSE d1

\* First vertex whose cumulative distance is at least meters, 0 if none.
FirstAtLeast(cumulativeDistances, meters) ==
    IF \E i \in 1..Len(cumulativeDistances) : cumulativeDistances[i] >= meters
    THEN CHOOSE i \in 1..Len(cumulativeDistances) :
            /\ cumulativeDistances[i] >= meters
            /\ \A j \in 1..(i - 1) : cumulativeDistances[j] < meters
    ELSE 0

\* GeometryUtils.getRouteSegment: the vertices (by index) of the sub-path,
\* one vertex before the first bracketing vertex to one after the last.
getRouteSegment(cumulativeDistances, startDist, endDist) ==
    IF startDist >= endDist \/ startDist < 0 THEN <<>>
    ELSE LET n == Len(cumulativeDistances)
             s0 == FirstAtLeast(cumulativeDistances, startDist * KmToMeters)
             e0 == FirstAtLeast(cumulativeDistances, endDist * KmToMeters)
             startIndex == IF s0 - 1 < 1 THEN 1 ELSE s0 - 1
             endIndex == IF e0 = 0 THEN n ELSE IF e0 + 1 > n THEN n ELSE e0 + 1
         IN IF s0 = 0 THEN <<>>
            ELSE [k \in 1..(endIndex - startIndex + 1) |-> startIndex + k - 1]

\* Mutant: a sub-path of fewer than 2 points counts as not aligned.
isBrunnelAligned_shortFails(b, cumulativeDistances, routeSpan, toleranceDegrees) ==
    IF Len(b.geometry) < 2 \/ Len(cumulativeDistances) < 2 \/ routeSpan.isNull
    THEN TRUE
    ELSE LET routeSegment == getRouteSegment(cumulativeDistances,
                                 routeSpan.startDistance, routeSpan.endDistance)
         IN /\ Len(routeSegment) >= 2
            /\ \E i \in 1..(Len(b.geometry) - 1) :
                   \E j \in 1..(Len(routeSegment) - 1) :
                       getBearingDifference(b.bearings[i],
                                            RouteBearing(routeSegment[j]))
                           <= toleranceDegrees

\* GeometryUtils.isBrunnelAligned
isBrunnelAligned(b, cumulativeDistances, routeSpan, toleranceDegrees) ==
    IF Len(b.geometry) < 2 \/ Len(cumulativeDistances) < 2 \/ routeSpan.isNull
    THEN TRUE
    ELSE LET routeSegment == getRouteSegment(cumulativeDistances,
                                 routeSpan.startDistance, routeSpan.endDistance)
         IN IF Len(routeSegment) < 2 THEN TRUE
            ELSE \E i \in 1..(Len(b.geometry) - 1) :
                    \E j \in 1..(Len(routeSegment) - 1) :
                        getBearingDifference(b.bearings[i],
                                             RouteBearing(routeSegment[j]))
                            <= toleranceDegrees

\* Mutant: a crossing without a span counts as not aligned.
isAligned_nullFails(b, cumulativeDistances, toleranceDegrees) ==
    /\ ~b.routeSpan.isNull
    /\ isBrunnelAligned(b, cumulativeDistances, b.routeSpan, toleranceDegrees)

\* Brunnel.isAligned
isAligned(b, cumulativeDistances, toleranceDegrees) ==
    IF b.routeSpan.isNull THEN TRUE
    ELSE isBrunnelAligned(b, cumulativeDistances, b.routeSpan, toleranceDegrees)

\* Mutant: the verdict is written on every brunnel ever created, whatever
\* its exclusionReason was.
filterAligned_rewritesAll(bs, list, toleranceDegrees) ==
    [id \in DOMAIN bs |->
        [bs[id] EXCEPT !.exclusionReason =
            IF isAligned(bs[id], RouteCumulative, toleranceDegrees)
            THEN "null" ELSE "misaligned"]]

\* BrunnelAnalysis.filterAligned
filterAligned(bs, list, toleranceDegrees) ==
    LET ids == {list[k] : k \in 1..Len(list)}
    IN [id \in DOMAIN bs |->
          IF /\ id \in ids
             /\ isIncluded(bs[id])
             /\ ~isAligned(bs[id], RouteCumulative, toleranceDegrees)
          THEN [bs[id] EXCEPT !.exclusionReason = "misaligned"]
          ELSE bs[id]]

\* ---------------------------------------------------------------- overlaps
\* Mutant: spans that share an end point count as overlapping.
routeSpansOverlap_inclusive(span1, span2) ==
    ~(span1.endDistance < span2.startDistance
        \/ span2.endDistance < span1.startDistance)

\* BrunnelAnalysis.routeSpansOverlap
routeSpansOverlap(span1, span2) ==
    ~(span1.endDistance <= span2.startDistance
        \/ span2.endDistance <= span1.startDistance)

\* Mutant: crossings that the list of an earlier analysis displayed are
\* left out of overlap resolution.
Eligible_skipsSeen(bs, list) ==
    SelectSeq(list, LAMBDA id : /\ isIncluded(bs[id])
                                /\ ~bs[id].routeSpan.isNull
                                /\ isRepresentative(bs, bs[id])
                                /\ \A k \in 1..Len(brunnelList) :
                                       brunnelList[k] # id)

\* The brunnels handleOverlaps considers, in list order.
Eligible(bs, list) ==
    SelectSeq(list, LAMBDA id : /\ isIncluded(bs[id])
                                /\ ~bs[id].routeSpan.isNull
                                /\ isRepresentative(bs, bs[id]))

\* Mutant: every brunnel counts as overlapping every group.
GroupOverlaps_always(bs, group, id) == TRUE

\* group.some(other => routeSpansOverlap(brunnel.routeSpan, other.routeSpan))
GroupOverlaps(bs, group, id) ==
    \E k \in 1..Len(group) :
        routeSpansOverlap(bs[id].routeSpan, bs[group[k]].routeSpan)

RECURSIVE BuildOverlapGroups_lastHit(_, _, _)
\* Mutant: the scan of the groups has no break, so a brunnel joins the last
\* group holding a brunnel it overlaps.
BuildOverlapGroups_lastHit(bs, included, overlapGroups) ==
    IF included = <<>> THEN overlapGroups
    ELSE LET id == Head(included)
             hits == {g \in 1..Len(overlapGroups) :
                        GroupOverlaps(bs, overlapGroups[g], id)}
         IN IF hits = {}
            THEN BuildOverlapGroups_lastHit(bs, Tail(included),
                                            Append(overlapGroups, <<id>>))
            ELSE LET g == CHOOSE g \in hits : \A h \in hits : g >= h
                 IN BuildOverlapGroups_lastHit(bs, Tail(included),
                        [overlapGroups EXCEPT ![g] = Append(@, id)])

RECURSIVE BuildOverlapGroups(_, _, _)
\* The grouping loop of handleOverlaps: each brunnel joins the first group
\* holding a brunnel it overlaps, or starts a new group.
BuildOverlapGroups(bs, included, overlapGroups) ==
    IF included = <<>> THEN overlapGroups
    ELSE LET id == Head(included)
             hits == {g \in 1..Len(overlapGroups) :
                        GroupOverlaps(bs, overlapGroups[g], id)}
         IN IF hits = {}
            THEN BuildOverlapGroups(bs, Tail(included),
                                    Append(overlapGroups, <<id>>))
            ELSE LET g == CHOOSE g \in hits : \A h \in hits : g <= h
                 IN BuildOverlapGroups(bs, Tail(included),
                        [overlapGroups EXCEPT ![g] = Append(@, id)])

RECURSIVE SumDist(_)
SumDist(points) ==
    IF points = <<>> THEN 0 ELSE Head(points).dist + SumDist(Tail(points))

RECURSIVE LenProduct(_, _)
LenProduct(bs, group) ==
    IF group = <<>> THEN 1
    ELSE Len(bs[Head(group)].geometry) * LenProduct(bs, Tail(group))

\* _calculateAverageDistanceToRoute: totalDistance / geometry.length, kept
\* exact by scaling every mean of a group by the product of the group's
\* geometry lengths.
_calculateAverageDistanceToRoute(bs, group, id) ==
    (SumDist(bs[id].geometry) * LenProduct(bs, group)) \div Len(bs[id].geometry)

\* Mutant: the sort by distance is left out.
SortedByDistance_unsorted(bs, group) == group

\* brunnelDistances after the sort: closest first.
SortedByDistance(bs, group) ==
    SortByKey(group, [id \in DOMAIN bs |->
                        IF \E k \in 1..Len(group) : group[k] = id
                        THEN _calculateAverageDistanceToRoute(bs, group, id)
                        ELSE 0])

\* Mutant: the excluding loop starts at 0 and excludes the closest as well.
ExcludedByOverlap_fromZero(bs, group, id) == TRUE

\* The loop "for (let i = 1; ...)" over the sorted brunnelDistances: every
\* member but the closest is excluded.
ExcludedByOverlap(bs, group, id) == Head(SortedByDistance(bs, group)) # id

\* Mutant: the excluded brunnels take part in overlap resolution as well.
handleOverlaps_anyReason(bs, list) ==
    LET candidates == SelectSeq(list, LAMBDA id :
                                    /\ ~bs[id].routeSpan.isNull
                                    /\ isRepresentative(bs, bs[id]))
        overlapGroups == BuildOverlapGroups(bs, candidates, <<>>)
        GroupOf(id) == {g \in 1..Len(overlapGroups) :
                          /\ Len(overlapGroups[g]) > 1
                          /\ \E k \in 1..Len(overlapGroups[g]) :
                                overlapGroups[g][k] = id}
    IN [id \in DOMAIN bs |->
          IF GroupOf(id) = {} THEN bs[id]
          ELSE LET group == overlapGroups[CHOOSE g \in GroupOf(id) : TRUE]
               IN [bs[id] EXCEPT
                     !.overlapGroup = group,
                     !.exclusionReason =
                        IF ExcludedByOverlap(bs, group, id)
                        THEN "alternative" ELSE @]]

\* BrunnelAnalysis.handleOverlaps
handleOverlaps(bs, list) ==
    LET overlapGroups == BuildOverlapGroups(bs, Eligible(bs, list), <<>>)
        GroupOf(id) == {g \in 1..Len(overlapGroups) :
                          /\ Len(overlapGroups[g]) > 1
                          /\ \E k \in 1..Len(overlapGroups[g]) :
                                overlapGroups[g][k] = id}
    IN [id \in DOMAIN bs |->
          IF GroupOf(id) = {} THEN bs[id]
          ELSE LET group == overlapGroups[CHOOSE g \in GroupOf(id) : TRUE]
               IN [bs[id] EXCEPT
                     !.overlapGroup = group,
                     !.exclusionReason =
                        IF ExcludedByOverlap(bs, group, id)
                        THEN "alternative" ELSE @]]

\* Mutant: the last step also excludes every crossing that overlap
\* resolution kept.
initializeSelectedState_excludes(bs, list) ==
    [id \in DOMAIN bs |->
        [bs[id] EXCEPT !.exclusionReason = "alternative", !.selected = FALSE]]

\* Brunnel.initializeSelectedState on every brunnel of the list.
initializeSelectedState(bs, list) ==
    LET ids == {list[k] : k \in 1..Len(list)}
    IN [id \in DOMAIN bs |->
          IF id \in ids THEN [bs[id] EXCEPT !.selected = isIncluded(bs[id])]
          ELSE bs[id]]

\* ------------------------------------------------------- the list display
\* Brunnel.getCompoundRouteSpan: from the first start to the last end of
\* the members that have a span; null if none has one.
getCompoundRouteSpan(bs, b) ==
    IF Len(b.compoundGroup) <= 1 THEN b.routeSpan
    ELSE LET spans == {bs[b.compoundGroup[k]].routeSpan :
                          k \in 1..Len(b.compoundGroup)}
             real == {sp \in spans : ~sp.isNull}
         IN IF real = {} THEN NullSpan
            ELSE [isNull |-> FALSE,
                  startDistance |->
                      CHOOSE x \in {sp.startDistance : sp \in real} :
                          \A sp \in real : x <= sp.startDistance,
                  endDistance |->
                      CHOOSE x \in {sp.endDistance : sp \in real} :
                          \A sp \in real : x >= sp.endDistance]

\* The sort key of updateBrunnelList:
\* (getCompoundRouteSpan() || routeSpan).startDistance
ListKey(bs, b) ==
    IF getCompoundRouteSpan(bs, b).isNull
    THEN b.routeSpan.startDistance
    ELSE getCompoundRouteSpan(bs, b).startDistance

\* updateBrunnelList: sortedBrunnels, the representatives that have a span,
\* by ascending start.
updateBrunnelList(bs, list) ==
    SortByKey(SelectSeq(list, LAMBDA id : /\ ~bs[id].routeSpan.isNull
                                          /\ isRepresentative(bs, bs[id])),
              [id \in DOMAIN bs |-> ListKey(bs, bs[id])])

\* ----------------------------------------------------------------- the map
\* A Leaflet polyline of brunnelLayerMap: whether the map has the layer,
\* and its _isHighlighted flag.
Layer(onMap, isHighlighted) == [onMap |-> onMap, isHighlighted |-> isHighlighted]

\* MapVisualization.addBrunnels: the old layers are dropped; every brunnel
\* with a span gets a layer (addBrunnel draws polylines of 2 points or
\* more), which is taken off the map again if the brunnel is not selected.
addBrunnels(bs, list) ==
    [id \in {list[k] : k \in {j \in 1..Len(list) :
                                /\ ~bs[list[j]].routeSpan.isNull
                                /\ Len(bs[list[j]].geometry) >= 2}} |->
        Layer(bs[id].selected, FALSE)]

\* The brunnels highlightBrunnel works on: the compound group of the
\* brunnel, or the brunnel alone.
brunnelsToHighlight(bs, brunnelId) ==
    IF Len(bs[brunnelId].compoundGroup) > 1
    THEN {bs[brunnelId].compoundGroup[k] :
             k \in 1..Len(bs[brunnelId].compoundGroup)}
    ELSE {brunnelId}

\* Mutant: the end of a highlight leaves every layer where it is.
highlightBrunnel_keepsLayer(bs, layers, brunnelId, highlight) ==
    IF brunnelId \notin DOMAIN layers THEN layers
    ELSE [id \in DOMAIN layers |->
            IF id \notin brunnelsToHighlight(bs, brunnelId) THEN layers[id]
            ELSE IF highlight THEN Layer(TRUE, TRUE)
                 ELSE Layer(layers[id].onMap, FALSE)]

\* MapVisualization.highlightBrunnel: a highlight puts the layers on the
\* map; its end takes the layers of unselected brunnels off again.
highlightBrunnel(bs, layers, brunnelId, highlight) ==
    IF brunnelId \notin DOMAIN layers THEN layers
    ELSE [id \in DOMAIN layers |->
            IF id \notin brunnelsToHighlight(bs, brunnelId) THEN layers[id]
            ELSE IF highlight THEN Layer(TRUE, TRUE)
                 ELSE Layer(layers[id].onMap /\ bs[id].selected, FALSE)]

\* MapVisualization.setBrunnelVisibility
setBrunnelVisibility(layers, brunnelId, visible) ==
    IF brunnelId \in DOMAIN layers
    THEN [layers EXCEPT ![brunnelId].onMap = visible]
    ELSE layers

\* Mutant: the toggle is applied to every member of the compound group.
SetSelected_wholeGroup(bs, list, brunnelId, visible) ==
    [id \in DOMAIN bs |->
        IF id \in brunnelsToHighlight(bs, brunnelId)
        THEN [bs[id] EXCEPT !.selected = visible] ELSE bs[id]]

\* toggleBrunnelVisibility: this.brunnels.find(...).selected = visible
SetSelected(bs, list, brunnelId, visible) ==
    IF \E k \in 1..Len(list) : list[k] = brunnelId
    THEN [bs EXCEPT ![brunnelId].selected = visible]
    ELSE bs

\* ------------------------------------------------------------------ actions
\* ------------------------------------------------------ the caching proxy
\* constructor: this.maxAge = options.maxAge || 24 hours (0 is falsy).
ProxyMaxAge(optionsMaxAge) ==
    IF optionsMaxAge = 0 THEN DefaultMaxAge ELSE optionsMaxAge

\* getCacheKey: the SHA-256 digest of the query text, one key per text.
getCacheKey(queryData) == <<"sha256", queryData>>

\* fs.existsSync(getCacheFilePath(cacheKey))
CacheFileExists(files, cacheKey) == cacheKey \in DOMAIN files

\* Mutant: an entry is valid whatever its age.
isCacheValid_ignoresAge(files, cacheKey, time, age) ==
    CacheFileExists(files, cacheKey)

\* isCacheValid: the file exists and Date.now() - mtime < this.maxAge.
isCacheValid(files, cacheKey, time, age) ==
    /\ CacheFileExists(files, cacheKey)
    /\ time - files[cacheKey].mtime < age

\* getCachedResponse: the parsed file, or null (here <<>>).
getCachedResponse(files, cacheKey, time, age) ==
    IF CacheFileExists(files, cacheKey) /\ isCacheValid(files, cacheKey, time, age)
    THEN <<files[cacheKey].data>>
    ELSE <<>>

\* saveToCache: writes the file, which gets the current time as mtime.
saveToCache(files, cacheKey, data, time) ==
    [k \in DOMAIN files \cup {cacheKey} |->
        IF k = cacheKey THEN [data |-> data, mtime |-> time] ELSE files[k]]

\* The proxy is not running.
ProxyNotStarted ==
    /\ maxAge = DefaultMaxAge
    /\ cache = <<>>
    /\ now = 0
    /\ requests = <<>>

\* A call of function fn with args; result is <<>> until the call returns.
Probe(fn, args) == [fn |-> fn, args |-> args, result |-> <<>>]

NoProbe == Probe("none", <<>>)

\* One invocation of analyzeRoute: the selected file and the response its
\* candidate query will get.
Call(file, data) ==
    [stage |-> "selected", file |-> file, data |-> data,
     options |-> [bearingTolerance |-> DefaultTolerance], verdicts |-> <<>>]

InitApp(cs, tol) ==
    /\ calls = cs
    /\ formTolerance = tol
    /\ overpassData = [bridges |-> <<>>, tunnels |-> <<>>]
    /\ options = [bearingTolerance |-> DefaultTolerance]
    /\ arena = <<>>
    /\ brunnels = <<>>
    /\ pc = "idle"
    /\ route = NullRoute
    /\ current = 0
    /\ brunnelList = <<>>
    /\ brunnelLayerMap = <<>>

\* The page after construction, with the file selections to come.
InitCalls(cs, tol) ==
    /\ InitApp(cs, tol)
    /\ probe = NoProbe
    /\ ProxyNotStarted

\* One file selection, of the track that starts north.
InitWith(data, tol) == InitCalls(<<Call(NorthFile, data)>>, tol)

\* Overlap slice: every way is a bridge without shared nodes.
Init ==
    \E n \in 0..MaxBrunnels : \E ways \in [1..n -> OverlapPool] :
        InitWith([bridges |-> ways, tunnels |-> <<>>], DefaultTolerance)

\* Alignment slice: bridges of every bearing, every tolerance of the form.
InitAlign ==
    \E n \in 0..MaxAlignBrunnels : \E ways \in [1..n -> AlignPool] :
        \E tol \in TolInputs :
            InitWith([bridges |-> ways, tunnels |-> <<>>], tol)

\* Compound slice: bridges and tunnels with shared nodes.
InitCompound ==
    \E n \in 0..MaxBrunnels : \E nb \in 0..n :
        \E ways \in [1..n -> CompoundPool] :
            InitWith([bridges |-> SubSeq(ways, 1, nb),
                      tunnels |-> SubSeq(ways, nb + 1, n)], DefaultTolerance)

\* Representative slice: bridges with shared nodes and different starts.
InitRep ==
    \E n \in 0..MaxBrunnels : \E ways \in [1..n -> RepPool] :
        InitWith([bridges |-> ways, tunnels |-> <<>>], DefaultTolerance)

\* The files a user can select.
SessionFiles ==
    {NorthFile, EastFile, CoincidentFile, SinglePointFile, EmptyFile}

\* Session slice: two file selections, each with its own file and its own
\* query response.
InitSession ==
    \E n1, n2 \in 0..MaxCallBrunnels :
        \E ways1 \in [1..n1 -> SessionPool], ways2 \in [1..n2 -> SessionPool] :
            \E file1, file2 \in SessionFiles :
                InitCalls(<<Call(file1, [bridges |-> ways1, tunnels |-> <<>>]),
                            Call(file2, [bridges |-> ways2, tunnels |-> <<>>])>>,
                          DefaultTolerance)

\* Repeat slice: the same file is selected twice and both queries get the
\* same response.
InitRepeat ==
    \E n \in 0..MaxRepeatBrunnels : \E ways \in [1..n -> RepeatPool] :
        InitCalls(<<Call(NorthFile, [bridges |-> ways, tunnels |-> <<>>]),
                    Call(NorthFile, [bridges |-> ways, tunnels |-> <<>>])>>,
                  DefaultTolerance)

\* No synchronous part of analyzeRoute is running: the event loop can run
\* an event handler or the continuation of an await.
ThreadFree == pc \in {"idle", "empty", "error", "shown"}

\* The change handler of the file input: analyzeRoute up to its first
\* await (getAnalysisOptions, showLoading, the call of parseGPXFile).
SelectFile(c) ==
    /\ ThreadFree
    /\ calls[c].stage = "selected"
    /\ \A d \in 1..(c - 1) : calls[d].stage # "selected"
    /\ calls' = [calls EXCEPT ![c].stage = "parsing",
                              ![c].options = getAnalysisOptions(formTolerance)]
    /\ UNCHANGED <<overpassData, formTolerance, options, arena, brunnels, pc,
                   route, current, brunnelList, brunnelLayerMap, probe>>
    /\ UNCHANGED proxyVars

\* The continuation after "await this.parseGPXFile(gpxFile)": this.route is
\* assigned and the candidate query is sent; a file without points ends the
\* invocation in the catch block.
ParseGPXFile(c) ==
    /\ ThreadFree
    /\ calls[c].stage = "parsing"
    /\ IF parseGPXFileThrows(calls[c].file)
       THEN /\ calls' = [calls EXCEPT ![c].stage = "failed"]
            /\ UNCHANGED route
       ELSE /\ calls' = [calls EXCEPT ![c].stage = "querying"]
            /\ route' = parseGPXFile(calls[c].file)
    /\ current' = c
    /\ UNCHANGED <<overpassData, formTolerance, options, arena, brunnels, pc,
                   brunnelList, brunnelLayerMap, probe>>
    /\ UNCHANGED proxyVars

\* The continuation after "await this.route.findBrunnels(options)", up to
\* the call of applyFiltering; without candidates the empty list is shown.
AnalyzeRoute(c) ==
    /\ ThreadFree
    /\ calls[c].stage = "querying"
    /\ overpassData' = calls[c].data
    /\ options' = calls[c].options
    /\ arena' = fromOverpassData(calls[c].data)
    /\ brunnels' = [i \in 1..(Len(calls[c].data.bridges)
                              + Len(calls[c].data.tunnels)) |-> i]
    /\ pc' = IF Len(calls[c].data.bridges) + Len(calls[c].data.tunnels) = 0
             THEN "empty" ELSE "filtering"
    /\ brunnelList' = IF Len(calls[c].data.bridges)
                           + Len(calls[c].data.tunnels) = 0
                      THEN <<>> ELSE brunnelList
    /\ calls' = [calls EXCEPT ![c].stage =
                    IF Len(calls[c].data.bridges)
                         + Len(calls[c].data.tunnels) = 0
                    THEN "shown" ELSE "returned"]
    /\ current' = c
    /\ UNCHANGED <<formTolerance, route, brunnelLayerMap, probe>>
    /\ UNCHANGED proxyVars

\* applyFiltering: createRouteBuffer, then
\* this.brunnels = filterContained(...); an exception ends the analysis in
\* the catch block of analyzeRoute.
FilterContained ==
    /\ pc = "filtering"
    /\ IF createRouteBufferThrows(route)
       THEN /\ pc' = "error"
            /\ UNCHANGED <<arena, brunnels>>
       ELSE LET r == filterContained(arena, brunnels)
            IN /\ arena' = r.arena
               /\ brunnels' = IF r.threw THEN brunnels ELSE r.contained
               /\ pc' = IF r.threw THEN "error" ELSE "contained"
    /\ UNCHANGED <<overpassData, formTolerance, options>>
    /\ UNCHANGED callVars

CalculateRouteSpans ==
    /\ pc = "contained"
    /\ arena' = calculateRouteSpans(arena, brunnels)
    /\ pc' = "spans"
    /\ UNCHANGED <<overpassData, formTolerance, options, brunnels>>
    /\ UNCHANGED callVars

FindCompoundBrunnels ==
    /\ pc = "spans"
    /\ arena' = findCompoundBrunnels(arena, brunnels)
    /\ pc' = "compound"
    /\ UNCHANGED <<overpassData, formTolerance, options, brunnels>>
    /\ UNCHANGED callVars

\* The alignment stage runs only if (options.bearingTolerance > 0).
FilterAligned ==
    /\ pc = "compound"
    /\ arena' = IF options.bearingTolerance > 0
                THEN filterAligned(arena, brunnels, options.bearingTolerance)
                ELSE arena
    /\ pc' = "aligned"
    /\ UNCHANGED <<overpassData, formTolerance, options, brunnels>>
    /\ UNCHANGED callVars

HandleOverlaps ==
    /\ pc = "aligned"
    /\ arena' = handleOverlaps(arena, brunnels)
    /\ pc' = "overlaps"
    /\ UNCHANGED <<overpassData, formTolerance, options, brunnels>>
    /\ UNCHANGED callVars

InitializeSelectedState ==
    /\ pc = "overlaps"
    /\ arena' = initializeSelectedState(arena, brunnels)
    /\ pc' = "done"
    /\ UNCHANGED <<overpassData, formTolerance, options, brunnels>>
    /\ UNCHANGED callVars

\* analyzeRoute after applyFiltering: showResultsScreen, updateBrunnelList,
\* updateMap; the verdicts of the invocation are on display.
ShowResults ==
    /\ pc = "done"
    /\ brunnelList' = updateBrunnelList(arena, brunnels)
    /\ brunnelLayerMap' = addBrunnels(arena, brunnels)
    /\ calls' = [calls EXCEPT ![current].verdicts = arena,
                              ![current].stage = "shown"]
    /\ pc' = "shown"
    /\ UNCHANGED <<overpassData, formTolerance, options, arena, brunnels,
                   route, current, probe>>
    /\ UNCHANGED proxyVars

Next ==
    \/ \E c \in DOMAIN calls : SelectFile(c)
    \/ \E c \in DOMAIN calls : ParseGPXFile(c)
    \/ \E c \in DOMAIN calls : AnalyzeRoute(c)
    \/ FilterContained
    \/ CalculateRouteSpans
    \/ FindCompoundBrunnels
    \/ FilterAligned
    \/ HandleOverlaps
    \/ InitializeSelectedState
    \/ ShowResults

Spec == Init /\ [][Next]_vars

SpecAlign == InitAlign /\ [][Next]_vars

SpecCompound == InitCompound /\ [][Next]_vars

SpecRep == InitRep /\ [][Next]_vars

SpecSession == InitSession /\ [][Next]_vars

SpecRepeat == InitRepeat /\ [][Next]_vars

\* ------------------------------------------------------ the results screen
\* Ways of the map slice: ways along the whole route with and without a
\* shared node and with every bearing, a way outside the corridor and a way
\* whose projection fails.
MapPool ==
    {Way(nodes, Line(0, MaxLoc, 0), b, TRUE, FALSE) :
        nodes \in {<<>>, <<1>>}, b \in Bearings}
    \cup {OutsideWay(<<>>), UnprojectableWay(<<>>)}

\* Map slice: one analysis, then the events of the results screen.
InitMap ==
    \E n \in 0..MaxMapBrunnels : \E ways \in [1..n -> MapPool] :
        InitWith([bridges |-> ways, tunnels |-> <<>>], DefaultTolerance)

\* The sidebar shows an item for the brunnel.
Listed(brunnelId) ==
    \E k \in 1..Len(brunnelList) : brunnelList[k] = brunnelId

\* mouseenter (highlight) and mouseleave on a sidebar item.
HighlightBrunnel(brunnelId, highlight) ==
    /\ ThreadFree
    /\ Listed(brunnelId)
    /\ brunnelLayerMap' =
          highlightBrunnel(arena, brunnelLayerMap, brunnelId, highlight)
    /\ UNCHANGED <<overpassData, formTolerance, options, arena, brunnels, pc,
                   calls, route, current, brunnelList, probe>>
    /\ UNCHANGED proxyVars

\* The change handler of a checkbox: toggleBrunnelVisibility.
ToggleBrunnelVisibility(brunnelId, visible) ==
    /\ ThreadFree
    /\ Listed(brunnelId)
    /\ arena' = SetSelected(arena, brunnels, brunnelId, visible)
    /\ brunnelLayerMap' =
          setBrunnelVisibility(brunnelLayerMap, brunnelId, visible)
    /\ UNCHANGED <<overpassData, formTolerance, options, brunnels, pc,
                   calls, route, current, brunnelList, probe>>
    /\ UNCHANGED proxyVars

NextMap ==
    \/ Next
    \/ \E brunnelId \in DOMAIN arena : \E highlight \in BOOLEAN :
          HighlightBrunnel(brunnelId, highlight)
    \/ \E brunnelId \in DOMAIN arena : \E visible \in BOOLEAN :
          ToggleBrunnelVisibility(brunnelId, visible)

SpecMap == InitMap /\ [][NextMap]_vars

\* ------------------------------------------------- the utility functions
\* Bearings in whole degrees from -180 to 360, every fifth one.
BearingInputs == {b \in (-HalfTurn)..FullTurn : b % 5 = 0}

\* Route spans with start <= end.
SpanInputs ==
    {[isNull |-> FALSE, startDistance |-> sp[1], endDistance |-> sp[2]] :
        sp \in Spans}

\* Route points on a grid of whole degrees.
CoordInputs ==
    {[lat |-> lat, lon |-> lon] : lat \in 0..MaxDegree, lon \in {0, MaxDegree}}

\* Routes of up to MaxRoutePoints points.
RouteInputs == UNION {[1..n -> CoordInputs] : n \in 0..MaxRoutePoints}

\* The bounding box of one coordinate.
BoxOf(coord) ==
    [minLat |-> coord.lat, maxLat |-> coord.lat,
     minLon |-> coord.lon, maxLon |-> coord.lon]

\* "Update bounding box incrementally"
ExtendBox(box, coord) ==
    [minLat |-> IF coord.lat < box.minLat THEN coord.lat ELSE box.minLat,
     maxLat |-> IF coord.lat > box.maxLat THEN coord.lat ELSE box.maxLat,
     minLon |-> IF coord.lon < box.minLon THEN coord.lon ELSE box.minLon,
     maxLon |-> IF coord.lon > box.maxLon THEN coord.lon ELSE box.maxLon]

RECURSIVE ChunkLoop_startsAfter(_, _, _, _, _)
\* Mutant: the next chunk starts one point after the end of the chunk.
ChunkLoop_startsAfter(routeCoords, i, startIdx, box, chunks) ==
    IF i >= Len(routeCoords) THEN chunks
    ELSE LET currCoord == routeCoords[i + 1]
             grown == ExtendBox(box, currCoord)
             degreesSquared == (grown.maxLat - grown.minLat)
                                 * (grown.maxLon - grown.minLon)
         IN IF degreesSquared >= MAX_DEGREES_SQUARED
                  \/ i = Len(routeCoords) - 1
            THEN ChunkLoop_startsAfter(routeCoords, i + 1, i + 1, BoxOf(currCoord),
                     Append(chunks, [startIdx |-> startIdx, endIdx |-> i,
                                     bounds |-> grown]))
            ELSE ChunkLoop_startsAfter(routeCoords, i + 1, startIdx, grown, chunks)

RECURSIVE ChunkLoop(_, _, _, _, _)
\* The loop of chunkRouteForQueries from index i (indices count from 0 as
\* in the code): a chunk is closed when the bounding box reaches the size
\* threshold or at the last point, and the next one starts at the same
\* point.  bounds is the box before the buffer is added.
ChunkLoop(routeCoords, i, startIdx, box, chunks) ==
    IF i >= Len(routeCoords) THEN chunks
    ELSE LET currCoord == routeCoords[i + 1]
             grown == ExtendBox(box, currCoord)
             degreesSquared == (grown.maxLat - grown.minLat)
                                 * (grown.maxLon - grown.minLon)
         IN IF degreesSquared >= MAX_DEGREES_SQUARED
                  \/ i = Len(routeCoords) - 1
            THEN ChunkLoop(routeCoords, i + 1, i, BoxOf(currCoord),
                     Append(chunks, [startIdx |-> startIdx, endIdx |-> i,
                                     bounds |-> grown]))
            ELSE ChunkLoop(routeCoords, i + 1, startIdx, grown, chunks)

\* routeCoords[0].lat throws a TypeError on a route without points.
chunkRouteForQueriesThrows(routeCoords) == Len(routeCoords) = 0

\* OverpassAPI.chunkRouteForQueries
chunkRouteForQueries(routeCoords) ==
    ChunkLoop(routeCoords, 1, 0, BoxOf(routeCoords[1]), <<>>)

\* A direct call of getBearingDifference, of routeSpansOverlap or of
\* chunkRouteForQueries.
InitPure ==
    /\ InitApp(<<>>, DefaultTolerance)
    /\ ProxyNotStarted
    /\ probe \in {Probe("getBearingDifference", <<b1, b2>>) :
                     b1 \in BearingInputs, b2 \in BearingInputs}
               \cup {Probe("routeSpansOverlap", <<s1, s2>>) :
                        s1 \in SpanInputs, s2 \in SpanInputs}
               \cup {Probe("chunkRouteForQueries", <<routeCoords>>) :
                        routeCoords \in RouteInputs}

GetBearingDifference ==
    /\ probe.fn = "getBearingDifference"
    /\ probe.result = <<>>
    /\ probe' = [probe EXCEPT !.result =
                    <<getBearingDifference(probe.args[1], probe.args[2])>>]
    /\ UNCHANGED appVars
    /\ UNCHANGED proxyVars

RouteSpansOverlap ==
    /\ probe.fn = "routeSpansOverlap"
    /\ probe.result = <<>>
    /\ probe' = [probe EXCEPT !.result =
                    <<routeSpansOverlap(probe.args[1], probe.args[2])>>]
    /\ UNCHANGED appVars
    /\ UNCHANGED proxyVars

ChunkRouteForQueries ==
    /\ probe.fn = "chunkRouteForQueries"
    /\ probe.result = <<>>
    /\ probe' = [probe EXCEPT !.result =
                    IF chunkRouteForQueriesThrows(probe.args[1])
                    THEN <<"TypeError">>
                    ELSE <<chunkRouteForQueries(probe.args[1])>>]
    /\ UNCHANGED appVars
    /\ UNCHANGED proxyVars

NextPure ==
    \/ GetBearingDifference
    \/ RouteSpansOverlap
    \/ ChunkRouteForQueries

SpecPure == InitPure /\ [][NextPure]_vars

\* -------------------------------------------------- the proxy at work
\* Query texts the clients post, and response bodies of the Overpass API
\* (JSON objects).
Queries == {"q1", "q2"}

Responses == {"r1", "r2"}

\* --max-age in hours: not given (0), or 2 hours.
MaxAgeOptions == {0, 2}

\* The proxy after start() and the cleanCache of startup: an empty cache
\* directory.
InitProxy ==
    /\ InitApp(<<>>, DefaultTolerance)
    /\ probe = NoProbe
    /\ \E o \in MaxAgeOptions : maxAge = ProxyMaxAge(o)
    /\ cache = <<>>
    /\ now = 0
    /\ requests = <<>>

\* handleRequest for a POST to /api/interpreter, from the 'end' event of
\* the body to the response or to the await of fetchFromOverpass.
HandleRequest(queryData) ==
    /\ Len(requests) < MaxRequests
    /\ LET cacheKey == getCacheKey(queryData)
           responseData == getCachedResponse(cache, cacheKey, now, maxAge)
       IN requests' = Append(requests,
             IF responseData # <<>>
             THEN [query |-> queryData, stage |-> "answered", status |-> 200,
                   body |-> responseData[1], upstream |-> FALSE]
             ELSE [query |-> queryData, stage |-> "fetching", status |-> 0,
                   body |-> "", upstream |-> TRUE])
    /\ UNCHANGED <<maxAge, cache, now>>
    /\ UNCHANGED <<appVars, probe>>

\* fetchFromOverpass resolves: the response is saved and returned.
FetchResolves(i, data) ==
    /\ requests[i].stage = "fetching"
    /\ cache' = saveToCache(cache, getCacheKey(requests[i].query), data, now)
    /\ requests' = [requests EXCEPT ![i].stage = "answered",
                                    ![i].status = 200,
                                    ![i].body = data]
    /\ UNCHANGED <<maxAge, now>>
    /\ UNCHANGED <<appVars, probe>>

\* fetchFromOverpass rejects (rate limit, HTTP error, network error): the
\* error is returned and nothing is saved.
FetchRejects(i, rateLimited) ==
    /\ requests[i].stage = "fetching"
    /\ requests' = [requests EXCEPT ![i].stage = "answered",
                                    ![i].status =
                                        IF rateLimited THEN 429 ELSE 500,
                                    ![i].body = "error"]
    /\ UNCHANGED <<maxAge, cache, now>>
    /\ UNCHANGED <<appVars, probe>>

\* An hour passes.
Tick ==
    /\ now < MaxClock
    /\ now' = now + 1
    /\ UNCHANGED <<maxAge, cache, requests>>
    /\ UNCHANGED <<appVars, probe>>

NextProxy ==
    \/ \E queryData \in Queries : HandleRequest(queryData)
    \/ \E i \in DOMAIN requests : \E data \in Responses : FetchResolves(i, data)
    \/ \E i \in DOMAIN requests : \E rateLimited \in BOOLEAN :
          FetchRejects(i, rateLimited)
    \/ Tick

SpecProxy == InitProxy /\ [][NextProxy]_vars

\* =================================================================== claims
Range(seq) == {seq[k] : k \in 1..Len(seq)}

\* The pipeline has run to its end.
PipelineDone == pc \in {"overlaps", "done", "shown"}

\* Compound detection has run.
CompoundDone == pc \in {"compound", "aligned", "overlaps", "done", "shown"}

HasSpan(id) == ~arena[id].routeSpan.isNull

\* C1: at the end of a pipeline run every included crossing has a non-null
\* routeSpan with startDistance <= endDistance, also when the projection of
\* the crossing fails.
C1_IncludedHaveSpan ==
    PipelineDone =>
        \A id \in DOMAIN arena :
            isIncluded(arena[id]) =>
                /\ HasSpan(id)
                /\ arena[id].routeSpan.startDistance
                      <= arena[id].routeSpan.endDistance

\* C2: a crossing excluded at containment ('outlier') is never re-included:
\* every step leaves an 'outlier' crossing an 'outlier', so its
\* exclusionReason is never null again.
C2_OutlierNeverReincluded ==
    [][\A id \in DOMAIN arena :
          arena[id].exclusionReason = "outlier" =>
              /\ id \in DOMAIN arena'
              /\ arena'[id].exclusionReason # "null"
              /\ arena'[id].exclusionReason = "outlier"]_vars

\* An outlier is still an outlier at the end of a run in which the later
\* stages ran and the overlap resolution excluded another crossing.
C2_Witness ==
    /\ pc = "done"
    /\ \E id \in DOMAIN arena : arena[id].exclusionReason = "outlier"
    /\ \E id \in DOMAIN arena : arena[id].exclusionReason = "alternative"

\* The representatives with a span that are included.
IncludedRep(id) ==
    /\ isIncluded(arena[id])
    /\ HasSpan(id)
    /\ isRepresentative(arena, arena[id])

\* C3 as stated: after overlap resolution no two included representatives
\* have overlapping route spans.
C3_NoOverlapAmongIncluded ==
    PipelineDone =>
        \A i, j \in Range(brunnels) :
            (i # j /\ IncludedRep(i) /\ IncludedRep(j)) =>
                ~routeSpansOverlap(arena[i].routeSpan, arena[j].routeSpan)

\* C3 amended: in every overlap group exactly one member is included at the
\* end, so two included representatives never belong to the same group.
C3_OneKeptPerOverlapGroup ==
    PipelineDone =>
        \A id \in DOMAIN arena :
            arena[id].overlapGroup # <<>> =>
                Cardinality({m \in Range(arena[id].overlapGroup) :
                                isIncluded(arena[m])}) = 1

\* Three representatives in one run: two in one overlap group, and a third
\* included one outside it whose span overlaps the kept member.
C3_Witness ==
    /\ PipelineDone
    /\ \E i, j \in Range(brunnels) :
          /\ i # j
          /\ IncludedRep(i) /\ IncludedRep(j)
          /\ arena[i].overlapGroup # <<>>
          /\ arena[j].overlapGroup = <<>>
          /\ routeSpansOverlap(arena[i].routeSpan, arena[j].routeSpan)

\* mean(a) <= mean(b) for the means of the point distances of a and b.
MeanLeq(a, b) ==
    SumDist(arena[a].geometry) * Len(arena[b].geometry)
        <= SumDist(arena[b].geometry) * Len(arena[a].geometry)

\* C4: in every overlap group (size >= 2) the member with the smallest mean
\* distance to the route stays included, every other member is
\* 'alternative', and every member's overlapGroup is the whole group.
C4_ClosestKept ==
    PipelineDone =>
        \A id \in DOMAIN arena :
            arena[id].overlapGroup # <<>> =>
                LET group == arena[id].overlapGroup
                IN /\ Len(group) >= 2
                   /\ id \in Range(group)
                   /\ \A m \in Range(group) : arena[m].overlapGroup = group
                   /\ \E kept \in Range(group) :
                         /\ isIncluded(arena[kept])
                         /\ \A m \in Range(group) : MeanLeq(kept, m)
                         /\ \A m \in Range(group) \ {kept} :
                               arena[m].exclusionReason = "alternative"

\* An overlap group whose first member is farther from the route than a
\* later one, which is the one kept.
C4_Witness ==
    /\ PipelineDone
    /\ \E id \in DOMAIN arena :
          /\ Len(arena[id].overlapGroup) >= 2
          /\ isIncluded(arena[id])
          /\ arena[id].overlapGroup[1] # id
          /\ ~MeanLeq(arena[id].overlapGroup[1], id)

\* Two crossings of one kind share a node identifier.
ShareNode(i, j) ==
    /\ arena[i].type = arena[j].type
    /\ Range(arena[i].nodes) \cap Range(arena[j].nodes) # {}

RECURSIVE Closure(_)
\* The crossings given to findCompoundBrunnels that a chain of shared
\* nodes links to a crossing of S.
Closure(S) ==
    LET T == S \cup {k \in Range(brunnels) : \E m \in S : ShareNode(m, k)}
    IN IF T = S THEN S ELSE Closure(T)

Component(i) == Closure({i})

\* C5: two distinct crossings given to findCompoundBrunnels are in the same
\* compoundGroup iff they have the same kind and a chain of crossings of
\* that kind, consecutive ones sharing a node, links them; every input
\* order is covered by the initial states.
C5_GroupsAreComponents ==
    CompoundDone =>
        \A i, j \in Range(brunnels) :
            i # j =>
                ((j \in Range(arena[i].compoundGroup)) <=> (j \in Component(i)))

\* Three crossings of one kind in one group although the first and the last
\* share no node.
C5_Witness ==
    /\ CompoundDone
    /\ \E i, j \in Range(brunnels) :
          /\ i # j
          /\ ~ShareNode(i, j)
          /\ j \in Range(arena[i].compoundGroup)
          /\ Len(arena[i].compoundGroup) = 3

\* C6: compoundGroup is null exactly for a component of size 1; otherwise
\* it is the whole component, holds the crossing itself, and is the same
\* array for every member.
C6_GroupNullOrWholeComponent ==
    CompoundDone =>
        \A i \in Range(brunnels) :
            /\ (arena[i].compoundGroup = <<>>) <=> (Cardinality(Component(i)) = 1)
            /\ arena[i].compoundGroup # <<>> =>
                  /\ Range(arena[i].compoundGroup) = Component(i)
                  /\ Len(arena[i].compoundGroup) = Cardinality(Component(i))
                  /\ i \in Range(arena[i].compoundGroup)
                  /\ \A m \in Component(i) :
                        arena[m].compoundGroup = arena[i].compoundGroup

\* A run with a compound group and a crossing that has nodes but stays
\* alone.
C6_Witness ==
    /\ CompoundDone
    /\ \E i, j \in Range(brunnels) :
          /\ Len(arena[i].compoundGroup) >= 2
          /\ arena[j].compoundGroup = <<>>
          /\ arena[j].nodes # <<>>

\* C7: all members of a compound group have the same kind.
C7_GroupsOfOneKind ==
    \A id \in DOMAIN arena :
        \A m \in Range(arena[id].compoundGroup) :
            arena[m].type = arena[id].type

\* A bridge in a compound group shares a node with a contained tunnel.
C7_Witness ==
    /\ CompoundDone
    /\ \E i, j \in Range(brunnels) :
          /\ arena[i].type = "bridge"
          /\ arena[j].type = "tunnel"
          /\ Range(arena[i].nodes) \cap Range(arena[j].nodes) # {}
          /\ Len(arena[i].compoundGroup) >= 2

\* Position of id in group.
PosIn(group, id) == CHOOSE k \in 1..Len(group) : group[k] = id

C9_ZeroToleranceDisablesFilter ==
    formTolerance = 0 =>
        \A id \in DOMAIN arena : arena[id].exclusionReason # "misaligned"

\* C10: the crossing list after the pipeline holds every input candidate.
C10_ListKeepsEveryCandidate ==
    PipelineDone => \A id \in DOMAIN arena : id \in Range(brunnels)

\* Containment has run on the list of this analysis.
ContainmentDone ==
    pc \in {"error", "contained", "spans", "compound", "aligned", "overlaps",
            "done", "shown"}

\* C11: a crossing whose polyline has fewer than 2 points is excluded at
\* containment as 'outlier' without an error, and the pipeline goes on to
\* the verdicts of the other crossings.
C11_ShortPolylineRejected ==
    (/\ ContainmentDone
     /\ \E id \in DOMAIN arena : Len(arena[id].geometry) < 2) =>
        /\ pc # "error"
        /\ \A id \in DOMAIN arena :
              Len(arena[id].geometry) < 2 =>
                  arena[id].exclusionReason = "outlier"

\* applyFiltering is running for the invocation `current`.
Filtering ==
    pc \in {"filtering", "contained", "spans", "compound", "aligned",
            "overlaps", "done"}

\* C12: the candidates of an invocation are filtered only against the
\* route of that same invocation, also when another file was selected
\* while the invocation was waiting for its candidate query.
C12_FilteredAgainstOwnRoute ==
    Filtering => route = parseGPXFile(calls[current].file)

\* No crossing has had a field written by a stage.
NothingWritten ==
    \A id \in DOMAIN arena :
        /\ arena[id].exclusionReason = "null"
        /\ arena[id].routeSpan.isNull
        /\ arena[id].compoundGroup = <<>>
        /\ arena[id].overlapGroup = <<>>

\* C13: a negative alignment tolerance makes the pipeline fail at its
\* entry: no stage runs and no crossing's exclusionReason, routeSpan,
\* compoundGroup or overlapGroup is written.
C13_NegativeToleranceFailsFast ==
    formTolerance < 0 =>
        /\ pc \in {"idle", "empty", "filtering", "error"}
        /\ NothingWritten

\* A file whose track has fewer than 2 points or zero total length.
InvalidRoute(file) ==
    \/ Len(file.coordinates) < 2
    \/ parseGPXFile(file).totalDistance = 0

\* C14: for a route of fewer than 2 points or of zero total length the
\* analysis is aborted when the route is built: the candidate query is
\* never sent and no pipeline stage runs.
C14_InvalidRouteAborts ==
    \A c \in DOMAIN calls :
        InvalidRoute(calls[c].file) =>
            calls[c].stage \in {"selected", "parsing", "failed"}

\* The steps from one stage of applyFiltering to the next.
StageOrder ==
    /\ pc = "filtering" => pc' \in {"contained", "error"}
    /\ pc = "contained" => pc' = "spans"
    /\ pc = "spans" => pc' = "compound"
    /\ pc = "compound" => pc' = "aligned"
    /\ pc = "aligned" => pc' = "overlaps"
    /\ pc = "overlaps" => pc' = "done"

\* Each field is written by its stage only.
WrittenByOwnStage(id) ==
    /\ arena'[id].exclusionReason # arena[id].exclusionReason =>
          \/ pc = "filtering" /\ arena'[id].exclusionReason = "outlier"
          \/ pc = "compound" /\ arena'[id].exclusionReason = "misaligned"
          \/ pc = "aligned" /\ arena'[id].exclusionReason = "alternative"
    /\ arena'[id].routeSpan # arena[id].routeSpan => pc = "contained"
    /\ arena'[id].compoundGroup # arena[id].compoundGroup => pc = "spans"
    /\ arena'[id].overlapGroup # arena[id].overlapGroup => pc = "aligned"

\* A stage starts when the previous one has finished for every crossing.
PreviousStageFinished ==
    /\ pc = "contained" =>
          \A id \in DOMAIN arena :
              /\ (id \in Range(brunnels)) <=> isWithin(arena[id])
              /\ (arena[id].exclusionReason = "outlier") <=> ~isWithin(arena[id])
    /\ pc = "spans" =>
          \A id \in Range(brunnels) :
              arena[id].routeSpan = calculateRouteSpan(arena[id])
    /\ pc \in {"compound", "aligned"} =>
          \A id \in Range(brunnels) :
              arena[id].compoundGroup # <<>> =>
                  \A m \in Range(arena[id].compoundGroup) :
                      arena[m].compoundGroup = arena[id].compoundGroup
    /\ pc = "aligned" =>
          \A id \in Range(brunnels) :
              /\ arena[id].overlapGroup = <<>>
              /\ arena[id].exclusionReason # "alternative"

\* C15: in one run the stages execute in the order containment, span
\* projection, compound detection, alignment, overlap resolution; each
\* starts after the previous one has finished for all crossings, each
\* field is written by its own stage, and overlap resolution is the last
\* stage that writes exclusionReason.
C15_StagesInOrder ==
    [][~ThreadFree =>
          /\ StageOrder
          /\ PreviousStageFinished
          /\ \A id \in DOMAIN arena :
                id \in DOMAIN arena' /\ WrittenByOwnStage(id)]_vars

\* A finished run in which every stage ran, the alignment stage excluded
\* one crossing and another one came through all stages with its span.
C15_Witness ==
    /\ pc = "shown"
    /\ \E id \in DOMAIN arena : arena[id].exclusionReason = "misaligned"
    /\ \E id \in DOMAIN arena :
          /\ isIncluded(arena[id])
          /\ HasSpan(id)
          /\ arena[id].selected

\* Two invocations got the same route, the same candidates in the same
\* order and the same configuration, and both have shown their results.
SameInputsShown(c, d) ==
    /\ calls[c].stage = "shown" /\ calls[d].stage = "shown"
    /\ calls[c].file = calls[d].file
    /\ calls[c].data = calls[d].data
    /\ calls[c].options = calls[d].options

EntriesOf(S) == {k \in 1..Len(brunnelList) : brunnelList[k] \in S}

\* C17: the representative list on display holds exactly one entry per
\* compound group and one per standalone crossing that has a route span,
\* nothing else, and is ordered by ascending routeSpan.startDistance of the
\* entries.
C17_OneEntryPerUnit ==
    pc = "shown" =>
        /\ \A id \in Range(brunnels) :
              /\ arena[id].compoundGroup # <<>> =>
                    Cardinality(EntriesOf(Range(arena[id].compoundGroup))) = 1
              /\ (arena[id].compoundGroup = <<>> /\ HasSpan(id)) =>
                    Cardinality(EntriesOf({id})) = 1
              /\ (arena[id].compoundGroup = <<>> /\ ~HasSpan(id)) =>
                    EntriesOf({id}) = {}
        /\ \A k \in 1..Len(brunnelList) : brunnelList[k] \in Range(brunnels)
        /\ \A k \in 1..(Len(brunnelList) - 1) :
              arena[brunnelList[k]].routeSpan.startDistance
                  <= arena[brunnelList[k + 1]].routeSpan.startDistance

\* The call of fn on display in probe has returned.
Returned(fn) == probe.fn = fn /\ probe.result # <<>>

\* The circular difference of two bearings folded to at most 180.
CircularDifference(b1, b2) ==
    LET m == (b1 - b2) % FullTurn
    IN IF m > HalfTurn THEN FullTurn - m ELSE m

\* C18: for all bearings in [-180, 360] getBearingDifference(b1, b2) is
\* min(d, 180 - d) for the circular difference d folded to at most 180; it
\* lies in [0, 90], is symmetric, and is 0 for a bearing and its reverse.
C18_BearingDifferenceFolds ==
    Returned("getBearingDifference") =>
        LET b1 == probe.args[1]
            b2 == probe.args[2]
            d == CircularDifference(b1, b2)
            diff == probe.result[1]
        IN /\ diff = IF d <= HalfTurn - d THEN d ELSE HalfTurn - d
           /\ diff \in 0..QuarterTurn
           /\ diff = getBearingDifference(b2, b1)
           /\ Abs(b1 - b2) = HalfTurn => diff = 0

\* C19: routeSpansOverlap is symmetric for all spans with start <= end, and
\* two spans that only touch (the end of one is the start of the other) do
\* not overlap.
C19_OverlapSymmetricTouchingApart ==
    Returned("routeSpansOverlap") =>
        LET s1 == probe.args[1]
            s2 == probe.args[2]
        IN /\ probe.result[1] = routeSpansOverlap(s2, s1)
           /\ s1.endDistance = s2.startDistance => probe.result[1] = FALSE
           /\ s2.endDistance = s1.startDistance => probe.result[1] = FALSE

\* The call has returned for two spans of positive length that touch.
C19_Witness ==
    /\ Returned("routeSpansOverlap")
    /\ probe.args[1].startDistance < probe.args[1].endDistance
    /\ probe.args[1].endDistance = probe.args[2].startDistance
    /\ probe.args[2].startDistance < probe.args[2].endDistance
    /\ probe.result = <<FALSE>>

\* A cache entry for the query text exists and is younger than the max age.
FreshEntry(queryData) ==
    /\ getCacheKey(queryData) \in DOMAIN cache
    /\ now - cache[getCacheKey(queryData)].mtime < maxAge

\* The request that arrives in this step is answered from the cache,
\* without contacting the Overpass API, exactly when a fresh entry exists;
\* otherwise it is sent upstream.
ArrivalServedFromCacheIffFresh ==
    Len(requests') = Len(requests) + 1 =>
        LET r == requests'[Len(requests')]
        IN /\ r.upstream <=> ~FreshEntry(r.query)
           /\ FreshEntry(r.query) =>
                 /\ r.stage = "answered" /\ r.status = 200
                 /\ r.body = cache[getCacheKey(r.query)].data
                 /\ cache' = cache
           /\ ~FreshEntry(r.query) => r.stage = "fetching"

\* The upstream response of this step is stored under the key of its query
\* and returned; nothing else changes the cache.
FetchedIsStoredAndReturned ==
    /\ \A i \in DOMAIN requests :
          (/\ requests[i].stage = "fetching"
           /\ requests'[i].stage = "answered"
           /\ requests'[i].status = 200) =>
              /\ getCacheKey(requests[i].query) \in DOMAIN cache'
              /\ cache'[getCacheKey(requests[i].query)] =
                    [data |-> requests'[i].body, mtime |-> now]
              /\ \A k \in DOMAIN cache' \ {getCacheKey(requests[i].query)} :
                    k \in DOMAIN cache /\ cache'[k] = cache[k]
    /\ cache' # cache =>
          \E i \in DOMAIN requests :
              /\ requests[i].stage = "fetching"
              /\ requests'[i].stage = "answered"
              /\ requests'[i].status = 200

EligibleBefore ==
    SelectSeq(brunnels,
              LAMBDA id : /\ arena[id].exclusionReason \in {"null", "alternative"}
                          /\ HasSpan(id)
                          /\ isRepresentative(arena, arena[id]))

\* grp[p] is the number of the group of the p-th eligible crossing when
\* each one joins the first existing group that has an overlapping earlier
\* member, and opens the next group when there is none.
IsGreedyGrouping(E, grp) ==
    \A p \in 1..Len(E) :
        LET hits == {grp[q] : q \in {x \in 1..(p - 1) :
                        routeSpansOverlap(arena[E[x]].routeSpan,
                                          arena[E[p]].routeSpan)}}
            opened == {grp[q] : q \in 1..(p - 1)}
        IN IF hits = {}
           THEN grp[p] = Cardinality(opened) + 1
           ELSE /\ grp[p] \in hits
                /\ \A h \in hits : grp[p] <= h

\* The members of the group of the p-th eligible crossing, in input order.
GreedyGroup(E, grp, p) ==
    LET members == {q \in 1..Len(E) : grp[q] = grp[p]}
    IN SelectSeq(E, LAMBDA id : \E q \in members : E[q] = id)

\* C21: handleOverlaps takes the eligible representatives in input order;
\* each joins the first existing group that has a member whose span
\* overlaps it and opens a new group only when there is none; every
\* eligible representative is in exactly one group (the groups of two or
\* more are the overlapGroup arrays, the others stay without one).
C21_GreedyFirstFitGrouping ==
    PipelineDone =>
        LET E == EligibleBefore
        IN \E grp \in [1..Len(E) -> 1..Len(E)] :
              /\ IsGreedyGrouping(E, grp)
              /\ \A p \in 1..Len(E) :
                    /\ arena[E[p]].overlapGroup =
                          IF Len(GreedyGroup(E, grp, p)) > 1
                          THEN GreedyGroup(E, grp, p) ELSE <<>>
                    /\ Cardinality({grp[q] : q \in {x \in 1..Len(E) :
                                                      E[x] = E[p]}}) = 1
              /\ \A id \in DOMAIN arena :
                    arena[id].overlapGroup # <<>> => id \in Range(E)

\* Two crossings that do not overlap each opened a group, and a third one
\* that overlaps both joined the first of the two groups.
C21_Witness ==
    /\ PipelineDone
    /\ Len(EligibleBefore) = 3
    /\ LET a == EligibleBefore[1]
           b == EligibleBefore[2]
           c == EligibleBefore[3]
       IN /\ ~routeSpansOverlap(arena[a].routeSpan, arena[b].routeSpan)
          /\ routeSpansOverlap(arena[a].routeSpan, arena[c].routeSpan)
          /\ routeSpansOverlap(arena[b].routeSpan, arena[c].routeSpan)
          /\ arena[c].overlapGroup = <<a, c>>
          /\ arena[b].overlapGroup = <<>>

\* C22 as stated: every two members of the same overlapGroup have
\* overlapping route spans.
C22_MembersOverlapPairwise ==
    PipelineDone =>
        \A id \in DOMAIN arena :
            \A i, j \in Range(arena[id].overlapGroup) :
                i # j => routeSpansOverlap(arena[i].routeSpan,
                                           arena[j].routeSpan)

\* C22 amended: every member of an overlapGroup but the first overlaps at
\* least one member that precedes it in the group, so the spans of a group
\* are linked by overlaps without overlapping pairwise.
C22_MembersOverlapAnEarlierOne ==
    PipelineDone =>
        \A id \in DOMAIN arena :
            LET group == arena[id].overlapGroup
            IN \A k \in 2..Len(group) :
                  \E j \in 1..(k - 1) :
                      routeSpansOverlap(arena[group[j]].routeSpan,
                                        arena[group[k]].routeSpan)

\* A group of three in which the second and the third member both overlap
\* the first and do not overlap each other.
C22_Witness ==
    /\ PipelineDone
    /\ \E id \in DOMAIN arena :
          LET group == arena[id].overlapGroup
          IN /\ Len(group) = 3
             /\ routeSpansOverlap(arena[group[1]].routeSpan,
                                  arena[group[2]].routeSpan)
             /\ routeSpansOverlap(arena[group[1]].routeSpan,
                                  arena[group[3]].routeSpan)
             /\ ~routeSpansOverlap(arena[group[2]].routeSpan,
                                   arena[group[3]].routeSpan)

\* The route sub-path of the span of a crossing.
SubPath(id) ==
    getRouteSegment(RouteCumulative, arena[id].routeSpan.startDistance,
                    arena[id].routeSpan.endDistance)

\* Some segment of the crossing and some segment of its sub-path have a
\* folded bearing difference within the tolerance.
SomePairWithin(id, tolerance) ==
    \E i \in DOMAIN arena[id].bearings :
        \E j \in 1..(Len(SubPath(id)) - 1) :
            getBearingDifference(arena[id].bearings[i],
                                 RouteBearing(SubPath(id)[j])) <= tolerance

\* C23: with a tolerance > 0 the alignment stage sets 'misaligned' on an
\* included crossing exactly when the crossing has a span, its sub-path has
\* at least 2 points and no pair of segments is within the tolerance; every
\* other included crossing stays included.
C23_MisalignedIffNoPairWithin ==
    [][(pc = "compound" /\ options.bearingTolerance > 0) =>
          \A id \in Range(brunnels) :
              isIncluded(arena[id]) =>
                  arena'[id].exclusionReason =
                      IF /\ HasSpan(id)
                         /\ Len(SubPath(id)) >= 2
                         /\ ~SomePairWithin(id, options.bearingTolerance)
                      THEN "misaligned" ELSE "null"]_vars

\* The alignment stage has run with a positive tolerance: one crossing is
\* misaligned, and one whose sub-path has fewer than 2 points is included.
C23_Witness ==
    /\ pc = "aligned"
    /\ options.bearingTolerance > 0
    /\ \E id \in Range(brunnels) :
          /\ arena[id].exclusionReason = "misaligned"
          /\ Len(SubPath(id)) >= 2
    /\ \E id \in Range(brunnels) :
          /\ isIncluded(arena[id])
          /\ HasSpan(id)
          /\ Len(SubPath(id)) < 2

\* C24: the sub-path used for the alignment test of a crossing holds only
\* route vertices whose cumulative distance lies within the span window
\* [startDistance, endDistance] of the crossing.
C24_SubPathInsideWindow ==
    (pc = "aligned" /\ options.bearingTolerance > 0) =>
        \A id \in Range(brunnels) :
            HasSpan(id) =>
                \A k \in 1..Len(SubPath(id)) :
                    /\ arena[id].routeSpan.startDistance * KmToMeters
                          <= RouteCumulative[SubPath(id)[k]]
                    /\ RouteCumulative[SubPath(id)[k]]
                          <= arena[id].routeSpan.endDistance * KmToMeters

\* C25: when the projection of a crossing onto the route fails, its
\* routeSpan stays null, no error leaves the pipeline, and the crossing
\* takes no part in the stages that need a span: it is never 'misaligned',
\* never in an overlap group and never 'alternative'; the other crossings
\* get their spans and go through the stages.
C25_FailedProjectionIsSkipped ==
    /\ pc # "error"
    /\ \A id \in DOMAIN arena :
          arena[id].projFails =>
              /\ arena[id].routeSpan.isNull
              /\ arena[id].exclusionReason \notin {"misaligned", "alternative"}
              /\ arena[id].overlapGroup = <<>>
              /\ \A other \in DOMAIN arena :
                    id \notin Range(arena[other].overlapGroup)
    /\ pc \in {"spans", "compound", "aligned", "overlaps", "done", "shown"} =>
          \A id \in Range(brunnels) :
              ~arena[id].projFails =>
                  /\ HasSpan(id)
                  /\ arena[id].routeSpan = calculateRouteSpan(arena[id])

\* A finished run with a crossing whose projection failed, still included
\* and without a span, beside two crossings that overlap resolution grouped.
C25_Witness ==
    /\ pc = "shown"
    /\ \E id \in Range(brunnels) :
          /\ arena[id].projFails
          /\ arena[id].routeSpan.isNull
          /\ isIncluded(arena[id])
    /\ \E id \in Range(brunnels) :
          /\ arena[id].exclusionReason = "alternative"
          /\ Len(arena[id].overlapGroup) = 2

\* C26: during a pipeline run the exclusionReason of a crossing is written
\* at most once: it changes only from null to a reason, and a reason once
\* set is neither replaced by another reason nor reset to null by a later
\* stage.
C26_ReasonWrittenOnce ==
    [][~ThreadFree =>
          \A id \in DOMAIN arena :
              /\ id \in DOMAIN arena'
              /\ arena'[id].exclusionReason
                    \in {"null", "outlier", "misaligned", "alternative"}
              /\ arena[id].exclusionReason # "null" =>
                    arena'[id].exclusionReason = arena[id].exclusionReason]_vars

\* The run is over: the alignment stage excluded a crossing whose span
\* overlaps the span of a crossing that overlap resolution considered.
C26_Witness ==
    /\ pc = "done"
    /\ \E i, j \in Range(brunnels) :
          /\ arena[i].exclusionReason = "misaligned"
          /\ IncludedRep(j)
          /\ routeSpansOverlap(arena[i].routeSpan, arena[j].routeSpan)

\* The crossing stands for its compound group: it has no group, or it is
\* the member with the smallest start (a null span counting as 0), the
\* first such member of the group array on a tie.
StandsForGroup(id) ==
    LET group == arena[id].compoundGroup
    IN Len(group) <= 1
       \/ \A k \in 1..Len(group) :
             \/ StartKey(arena[group[k]]) > StartKey(arena[id])
             \/ /\ StartKey(arena[group[k]]) = StartKey(arena[id])
                /\ k >= PosIn(group, id)

\* C27: handleOverlaps changes exclusionReason and overlapGroup only, and
\* only of crossings that are included, have a span and stand for their
\* compound group; every other crossing is left as it was, also the other
\* members of a compound group whose representative is superseded.
C27_OverlapsTouchEligibleOnly ==
    [][pc = "aligned" =>
          \A id \in DOMAIN arena :
              /\ id \in DOMAIN arena'
              /\ [arena'[id] EXCEPT !.exclusionReason = "null",
                                    !.overlapGroup = <<>>]
                    = [arena[id] EXCEPT !.exclusionReason = "null",
                                        !.overlapGroup = <<>>]
              /\ ~(isIncluded(arena[id]) /\ HasSpan(id) /\ StandsForGroup(id))
                    => arena'[id] = arena[id]]_vars

\* The representative of a compound group was superseded by a crossing
\* outside the group while another member of the group, which has a span,
\* is still included and has no overlap group.
C27_Witness ==
    /\ pc = "overlaps"
    /\ \E r, m \in Range(brunnels) :
          /\ r # m
          /\ m \in Range(arena[r].compoundGroup)
          /\ StandsForGroup(r)
          /\ arena[r].exclusionReason = "alternative"
          /\ HasSpan(m)
          /\ isIncluded(arena[m])
          /\ arena[m].overlapGroup = <<>>

\* C28: after addBrunnels and any sequence of hover enter/leave events on
\* sidebar items and checkbox toggles, every layer that is not highlighted
\* is on the map exactly when its crossing is selected.
C28_LayerOnMapIffSelected ==
    \A id \in DOMAIN brunnelLayerMap :
        ~brunnelLayerMap[id].isHighlighted =>
            (brunnelLayerMap[id].onMap <=> arena[id].selected)

\* The user has unchecked an included crossing, whose layer is off the map,
\* and the pointer is on the sidebar item of an excluded crossing, whose
\* layer is on the map while it is highlighted.
C28_Witness ==
    /\ pc = "shown"
    /\ \E x, m \in DOMAIN brunnelLayerMap :
          /\ isIncluded(arena[x]) /\ ~arena[x].selected
          /\ ~brunnelLayerMap[x].isHighlighted /\ ~brunnelLayerMap[x].onMap
          /\ ~isIncluded(arena[m]) /\ ~arena[m].selected
          /\ brunnelLayerMap[m].isHighlighted /\ brunnelLayerMap[m].onMap

\* C29: right after applyFiltering every crossing of this.brunnels has
\* selected equal to isIncluded(); afterwards toggleBrunnelVisibility(id,
\* visible) sets selected = visible on the crossing with that id only: it
\* changes no exclusionReason, routeSpan, compoundGroup or overlapGroup,
\* and not the selected flag of the other members of its compound group.
C29_ToggleWritesOneSelectedFlag ==
    [][/\ (pc = "overlaps" /\ pc' = "done") =>
             \A id \in Range(brunnels') :
                 arena'[id].selected = isIncluded(arena'[id])
       /\ \A brunnelId \in DOMAIN arena : \A visible \in BOOLEAN :
             ToggleBrunnelVisibility(brunnelId, visible) =>
                 /\ arena'[brunnelId].selected = visible
                 /\ \A id \in DOMAIN arena :
                       /\ arena'[id].exclusionReason = arena[id].exclusionReason
                       /\ arena'[id].routeSpan = arena[id].routeSpan
                       /\ arena'[id].compoundGroup = arena[id].compoundGroup
                       /\ arena'[id].overlapGroup = arena[id].overlapGroup
                       /\ id # brunnelId =>
                             arena'[id].selected = arena[id].selected
                 /\ arena' = [arena EXCEPT ![brunnelId].selected = visible]]_vars

\* The user has unchecked the representative of a compound group; the
\* other member of the group is still selected.
C29_Witness ==
    /\ pc = "shown"
    /\ \E r, m \in Range(brunnels) :
          /\ r # m
          /\ Listed(r)
          /\ m \in Range(arena[r].compoundGroup)
          /\ isIncluded(arena[r]) /\ ~arena[r].selected
          /\ isIncluded(arena[m]) /\ arena[m].selected

\* C30: for a route of n >= 2 points chunkRouteForQueries returns at least
\* one chunk; the first chunk starts at index 0, every following chunk
\* starts at the index where the previous one ended, and the last chunk
\* ends at index n - 1, so every route point lies in some chunk.
C30_ChunksCoverRoute ==
    (Returned("chunkRouteForQueries") /\ Len(probe.args[1]) >= 2) =>
        LET n == Len(probe.args[1])
            chunks == probe.result[1]
        IN /\ Len(chunks) >= 1
           /\ chunks[1].startIdx = 0
           /\ \A k \in 2..Len(chunks) :
                 chunks[k].startIdx = chunks[k - 1].endIdx
           /\ chunks[Len(chunks)].endIdx = n - 1
           /\ \A point \in 0..(n - 1) :
                 \E k \in 1..Len(chunks) :
                     chunks[k].startIdx <= point /\ point <= chunks[k].endIdx

\* The call has returned for a route whose bounding box reached the size
\* threshold before its last point: there are two chunks or more.
C30_Witness ==
    /\ Returned("chunkRouteForQueries")
    /\ Len(probe.args[1]) >= 3
    /\ Len(probe.result[1]) >= 2
    /\ probe.result[1][1].endIdx < Len(probe.args[1]) - 1

====
